---------------------------- MODULE Spec2Model ----------------------------
(***************************************************************************)
(* Model of praisonaiagents/tools/ast_grep_tool.py: the adapter around the *)
(* ast-grep command line tool "sg".                                        *)
(*                                                                         *)
(* State: the module-global _availability_cache, the presence of the sg    *)
(* binary on PATH (environment), and, per caller, the position of the      *)
(* caller inside is_ast_grep_available / ast_grep_search /                 *)
(* ast_grep_rewrite / ast_grep_scan together with its locals.              *)
(*                                                                         *)
(* Texts are sequences of tokens.  A token is one whitespace character or *)
(* a piece of literal text, so that str.strip() and f-string formatting    *)
(* are computed and not assumed.                                           *)
(***************************************************************************)
EXTENDS Naturals, Sequences, FiniteSets

VARIABLES
    cache,      \* _availability_cache: None, or Some(TRUE / FALSE)
    onPath,     \* environment: shutil.which('sg') would find the binary
    lookups,    \* number of shutil.which('sg') calls made so far
    writes,     \* number of assignments made to _availability_cache
    pc,         \* per caller: position in the code
    call,       \* per caller: the operation called and its arguments
    sg_path,    \* per caller: the local sg_path of is_ast_grep_available
    avail,      \* per caller: value returned by is_ast_grep_available
    cmd,        \* per caller: the invocation (list of tokens) built
    runs,       \* per caller: subprocess.run calls made by this call
    proc,       \* per caller: what the child process did
    result,     \* per caller: the text returned
    raised      \* per caller: exception that left the operation ("" if none)

vars == <<cache, onPath, lookups, writes, pc, call, sg_path, avail, cmd,
          runs, proc, result, raised>>

-----------------------------------------------------------------------------
(* Bounds of the model *)

\* length of the standard output of the child process, in tokens
MaxOutLen == 2
\* durations of the child process are 50, 100, ... MaxTicks * 50 seconds
MaxTicks == 3
\* cap on the counter of path lookups
MaxLookups == 3

Callers == {1, 2}

-----------------------------------------------------------------------------
(* Python values *)

None == <<>>
Some(x) == <<x>>

\* truth value of a str argument: "" and None are falsy
PyNone == "<None>"
\* a local that has not been assigned
Unbound == "<unbound>"
Truthy(s) == s # "" /\ s # PyNone

Whitespace == {" ", "\n"}

RECURSIVE LStrip(_)
LStrip(s) ==
    IF s # <<>> /\ Head(s) \in Whitespace THEN LStrip(Tail(s)) ELSE s

RECURSIVE RStrip(_)
RStrip(s) ==
    IF s # <<>> /\ s[Len(s)] \in Whitespace
    THEN RStrip(SubSeq(s, 1, Len(s) - 1))
    ELSE s

\* str.strip()
Strip(s) == RStrip(LStrip(s))


-----------------------------------------------------------------------------
(* Texts returned by the operations *)

NotInstalledMessage ==
    << "ast-grep is not installed or not available in PATH.\n\n",
       "To install ast-grep, run:\n",
       "  pip install ast-grep-cli\n\n",
       "Or install via npm:\n",
       "  npm install -g @ast-grep/cli\n\n",
       "For more information, visit: https://ast-grep.github.io/" >>

PatternEmptyMessage == << "Error: Pattern cannot be empty" >>
ReplacementEmptyMessage == << "Error: Replacement cannot be empty" >>

\* f"Error: {x}"
ErrorText(x) == << "Error: " >> \o x
\* f"Error executing ast-grep: {e}"
ExecutingErrorText(x) == << "Error executing ast-grep: " >> \o x

\* str(e) of an exception of class exc: one token standing for its message
ExcStr(exc) == << exc >>

-----------------------------------------------------------------------------
(* Arguments *)

SearchOp == "ast_grep_search"
RewriteOp == "ast_grep_rewrite"
ScanOp == "ast_grep_scan"
AvailableOp == "is_ast_grep_available"
ToolOps == {SearchOp, RewriteOp, ScanOp}

\* parameter defaults
PathDefault == "."
JsonOutputDefault == TRUE
DryRunDefault == TRUE
RuleFileDefault == PyNone

\* values a caller passes
Patterns == {"", "def $FN($$$)"}
Replacements == {"", "def new_name($$$)"}
Langs == {"python"}
Paths == {"./src", "--update-all"}
RuleFiles == {"", "rules.yml"}
\* for an argument that has a default: omitted (None), or Some(value)
Given(S) == {None} \cup {Some(x) : x \in S}
Bind(arg, default) == IF arg = None THEN default ELSE arg[1]

NoCall ==
    [op |-> "none", pattern |-> "", replacement |-> "", lang |-> "",
     path |-> "", json_output |-> FALSE, dry_run |-> FALSE,
     rule_file |-> "", dry_run_given |-> FALSE]

AvailableCalls == {[NoCall EXCEPT !.op = AvailableOp]}

SearchCalls ==
    {[NoCall EXCEPT !.op = SearchOp, !.pattern = p, !.lang = l,
                    !.path = Bind(pa, PathDefault),
                    !.json_output = Bind(j, JsonOutputDefault)] :
        p \in Patterns, l \in Langs, pa \in {None}, j \in Given({FALSE})}

RewriteCalls ==
    {[NoCall EXCEPT !.op = RewriteOp, !.pattern = x[1], !.replacement = x[2],
                    !.lang = l,
                    !.path = Bind(pa, PathDefault),
                    !.dry_run = Bind(d, DryRunDefault),
                    !.dry_run_given = (d # None)] :
        x \in Patterns \X Replacements, l \in Langs, pa \in Given(Paths),
        d \in Given(BOOLEAN)}

ScanCalls ==
    {[NoCall EXCEPT !.op = ScanOp,
                    !.path = Bind(pa, PathDefault),
                    !.rule_file = Bind(r, RuleFileDefault)] :
        pa \in {None}, r \in Given(RuleFiles)}

ToolCalls == SearchCalls \cup RewriteCalls \cup ScanCalls
Calls == AvailableCalls \cup ToolCalls

-----------------------------------------------------------------------------
(* The child process *)

\* all sequences over S of length at most n
RECURSIVE SeqsUpTo(_, _)
SeqsUpTo(S, n) ==
    IF n = 0 THEN {<<>>}
    ELSE LET shorter == SeqsUpTo(S, n - 1) IN
         shorter \cup {Append(s, x) : s \in shorter, x \in S}

Stdouts == SeqsUpTo({"\n", "match"}, MaxOutLen)
Stderrs == {<<>>, <<"diagnostic", "\n">>}
ReturnCodes == {0, 1}
Durations == {50 * k : k \in 1..MaxTicks}
\* exceptions subprocess.run raises other than TimeoutExpired
Faults == {"OSError", "SubprocessError", "ValueError"}

NoProc ==
    [fault |-> "none", duration |-> 0, returncode |-> 0,
     stdout |-> <<>>, stderr |-> <<>>]

FaultyChild(f) == [NoProc EXCEPT !.fault = f]

\* the children the environment can produce when sg is on PATH; with sg
\* absent from PATH the launch fails with FileNotFoundError, an OSError
Children(present) ==
    IF ~present THEN {FaultyChild("OSError")}
    ELSE {FaultyChild(f) : f \in Faults} \cup
         {[fault |-> "none", duration |-> d, returncode |-> rc,
           stdout |-> so, stderr |-> se] :
             d \in Durations, rc \in ReturnCodes,
             so \in Stdouts, se \in Stderrs}

SearchTimeout == 60
RewriteTimeout == 120
ScanTimeout == 120

\* subprocess.run(cmd, capture_output=True, text=True, timeout=...):
\* the exception raised ("" if none) and the CompletedProcess
SubprocessRun(child, timeout) ==
    IF child.fault # "none" THEN
        [exc |-> child.fault, returncode |-> 0, stdout |-> <<>>,
         stderr |-> <<>>]
    ELSE IF child.duration > timeout THEN
        [exc |-> "TimeoutExpired", returncode |-> 0, stdout |-> <<>>,
         stderr |-> <<>>]
    ELSE
        [exc |-> "", returncode |-> child.returncode,
         stdout |-> child.stdout, stderr |-> child.stderr]

\* exception classes: TimeoutExpired < SubprocessError < Exception
IsSubprocessError(exc) == exc \in {"TimeoutExpired", "SubprocessError"}
IsException(exc) == exc \in {"TimeoutExpired"} \cup Faults

Returned(text) == [raised |-> "", text |-> text]
Propagated(exc) == [raised |-> exc, text |-> <<>>]

-----------------------------------------------------------------------------
(* The except clauses of the three operations *)

TimeoutMessage(op) ==
    IF op = SearchOp THEN << "Error: Search timed out after 60 seconds" >>
    ELSE IF op = RewriteOp
    THEN << "Error: Rewrite timed out after 120 seconds" >>
    ELSE << "Error: Scan timed out after 120 seconds" >>

\* a wrong order of the clauses: SubprocessError is tried first and catches
\* TimeoutExpired, its subclass
HandlerSubprocessErrorFirst(op, exc) ==
    IF IsSubprocessError(exc) THEN Returned(ExecutingErrorText(ExcStr(exc)))
    ELSE IF exc = "TimeoutExpired" THEN Returned(TimeoutMessage(op))
    ELSE IF IsException(exc) THEN Returned(ErrorText(ExcStr(exc)))
    ELSE Propagated(exc)

\* no catch-all clause
HandlerNoCatchAll(op, exc) ==
    IF exc = "TimeoutExpired" THEN Returned(TimeoutMessage(op))
    ELSE IF IsSubprocessError(exc)
    THEN Returned(ExecutingErrorText(ExcStr(exc)))
    ELSE Propagated(exc)

\* except subprocess.TimeoutExpired / except subprocess.SubprocessError /
\* except Exception, tried in this order
Handler(op, exc) ==
    IF exc = "TimeoutExpired" THEN Returned(TimeoutMessage(op))
    ELSE IF IsSubprocessError(exc)
    THEN Returned(ExecutingErrorText(ExcStr(exc)))
    ELSE IF IsException(exc) THEN Returned(ErrorText(ExcStr(exc)))
    ELSE Propagated(exc)

-----------------------------------------------------------------------------
(* ast_grep_search *)

\* the returns before the try block; <<>> when none is taken
SearchEarly(available, c) ==
    IF ~available THEN NotInstalledMessage
    ELSE IF ~Truthy(c.pattern) THEN PatternEmptyMessage
    ELSE <<>>

SearchCmd(c) ==
    << "sg", "--pattern", c.pattern, "--lang", c.lang >>
    \o (IF c.json_output THEN << "--json" >> ELSE <<>>)
    \o << c.path >>

\* the output is looked at before the exit code
SearchResultOutputFirst(r) ==
    LET output == Strip(r.stdout) IN
    IF output # <<>> THEN output
    ELSE IF r.returncode # 0 /\ r.stderr # <<>> THEN ErrorText(r.stderr)
    ELSE << "No matches found" >>

SearchResult(r) ==
    IF r.returncode # 0 /\ r.stderr # <<>> THEN ErrorText(r.stderr)
    ELSE LET output == Strip(r.stdout) IN
         IF output = <<>> THEN << "No matches found" >> ELSE output

-----------------------------------------------------------------------------
(* ast_grep_rewrite *)

\* the replacement is not validated
RewriteEarlyNoReplacementCheck(available, c) ==
    IF ~available THEN NotInstalledMessage
    ELSE IF ~Truthy(c.pattern) THEN PatternEmptyMessage
    ELSE <<>>

RewriteEarly(available, c) ==
    IF ~available THEN NotInstalledMessage
    ELSE IF ~Truthy(c.pattern) THEN PatternEmptyMessage
    ELSE IF ~Truthy(c.replacement) THEN ReplacementEmptyMessage
    ELSE <<>>

RewriteCmd(c) ==
    << "sg", "--pattern", c.pattern, "--rewrite", c.replacement,
       "--lang", c.lang >>
    \o (IF ~c.dry_run THEN << "--update-all" >> ELSE <<>>)
    \o << c.path >>

\* the two empty-output sentinels exchanged
RewriteResultSentinelsSwapped(r, dry_run) ==
    IF r.returncode # 0 /\ r.stderr # <<>> THEN ErrorText(r.stderr)
    ELSE LET output == Strip(r.stdout) IN
         IF output = <<>> THEN
            IF dry_run THEN << "No changes made" >>
            ELSE << "No matches found for rewrite" >>
         ELSE (IF dry_run THEN << "[DRY RUN] " >> ELSE <<>>) \o output

RewriteResult(r, dry_run) ==
    IF r.returncode # 0 /\ r.stderr # <<>> THEN ErrorText(r.stderr)
    ELSE LET output == Strip(r.stdout) IN
         IF output = <<>> THEN
            IF dry_run THEN << "No matches found for rewrite" >>
            ELSE << "No changes made" >>
         ELSE (IF dry_run THEN << "[DRY RUN] " >> ELSE <<>>) \o output

-----------------------------------------------------------------------------
(* ast_grep_scan *)

\* the availability gate is missing
ScanEarlyNoGate(available, c) == <<>>

ScanEarly(available, c) ==
    IF ~available THEN NotInstalledMessage ELSE <<>>

ScanCmd(c) ==
    << "sg", "scan" >>
    \o (IF Truthy(c.rule_file) THEN << "--rule", c.rule_file >> ELSE <<>>)
    \o << c.path >>

\* a non-zero exit code with diagnostics is an error, as in search
ScanResultExitCodeChecked(r) ==
    IF r.returncode # 0 /\ r.stderr # <<>> THEN ErrorText(r.stderr)
    ELSE LET output == Strip(r.stdout) IN
         IF output = <<>> THEN << "No issues found" >> ELSE output

ScanResult(r) ==
    LET output == Strip(r.stdout) IN
    IF r.stderr # <<>> /\ output = <<>> THEN ErrorText(r.stderr)
    ELSE IF output = <<>> THEN << "No issues found" >>
    ELSE output

-----------------------------------------------------------------------------
(* The three operations, by name *)

Early(available, c) ==
    IF c.op = SearchOp THEN SearchEarly(available, c)
    ELSE IF c.op = RewriteOp THEN RewriteEarly(available, c)
    ELSE ScanEarly(available, c)

BuildCmd(c) ==
    IF c.op = SearchOp THEN SearchCmd(c)
    ELSE IF c.op = RewriteOp THEN RewriteCmd(c)
    ELSE ScanCmd(c)

Timeout(op) ==
    IF op = SearchOp THEN SearchTimeout
    ELSE IF op = RewriteOp THEN RewriteTimeout
    ELSE ScanTimeout

Format(c, r) ==
    IF c.op = SearchOp THEN SearchResult(r)
    ELSE IF c.op = RewriteOp THEN RewriteResult(r, c.dry_run)
    ELSE ScanResult(r)

\* the try block from subprocess.run on, with its except clauses
Try(c, child) ==
    LET r == SubprocessRun(child, Timeout(c.op)) IN
    IF r.exc = "" THEN Returned(Format(c, r)) ELSE Handler(c.op, r.exc)

-----------------------------------------------------------------------------
(* State machine *)

Idle == [t \in Callers |-> "idle"]

Init ==
    /\ cache = None
    /\ onPath \in BOOLEAN
    /\ lookups = 0
    /\ writes = 0
    /\ pc = Idle
    /\ call = [t \in Callers |-> NoCall]
    /\ sg_path = [t \in Callers |-> Unbound]
    /\ avail = [t \in Callers |-> None]
    /\ cmd = [t \in Callers |-> <<>>]
    /\ runs = [t \in Callers |-> 0]
    /\ proc = [t \in Callers |-> NoProc]
    /\ result = [t \in Callers |-> <<>>]
    /\ raised = [t \in Callers |-> ""]

\* the environment installs or removes the sg binary
PathChange ==
    /\ onPath' = ~onPath
    /\ UNCHANGED <<cache, lookups, writes, pc, call, sg_path, avail, cmd,
                   runs, proc, result, raised>>

\* what each caller calls: caller 1 any operation; a second, overlapping
\* caller the availability check
CallsOf(t) == IF t = 1 THEN Calls ELSE AvailableCalls

\* a caller calls an operation; each tool operation starts with
\* is_ast_grep_available()
Start(t) ==
    /\ pc[t] = "idle"
    /\ \E c \in CallsOf(t) : call' = [call EXCEPT ![t] = c]
    /\ pc' = [pc EXCEPT ![t] = "l51"]
    /\ UNCHANGED <<cache, onPath, lookups, writes, sg_path, avail, cmd,
                   runs, proc, result, raised>>

\* the cache is never taken as filled
CacheNeverHit == FALSE

\* if _availability_cache is not None
CacheHit == cache # None

CheckCache(t) ==
    /\ pc[t] = "l51"
    /\ pc' = [pc EXCEPT ![t] = IF CacheHit THEN "l52" ELSE "l55"]
    /\ UNCHANGED <<cache, onPath, lookups, writes, call, sg_path, avail,
                   cmd, runs, proc, result, raised>>

\* where is_ast_grep_available returns to
AfterAvailable(t) == IF call[t].op = AvailableOp THEN "done" ELSE "l113"

\* return _availability_cache (line 52)
ReturnCached(t) ==
    /\ pc[t] = "l52"
    /\ avail' = [avail EXCEPT ![t] = cache]
    /\ pc' = [pc EXCEPT ![t] = AfterAvailable(t)]
    /\ UNCHANGED <<cache, onPath, lookups, writes, call, sg_path, cmd,
                   runs, proc, result, raised>>

\* sg_path = shutil.which('sg')
Which(t) ==
    /\ pc[t] = "l55"
    /\ lookups < MaxLookups
    /\ sg_path' = [sg_path EXCEPT
                     ![t] = IF onPath THEN "/usr/local/bin/sg" ELSE PyNone]
    /\ lookups' = lookups + 1
    /\ pc' = [pc EXCEPT ![t] = "l56"]
    /\ UNCHANGED <<cache, onPath, writes, call, avail, cmd, runs, proc,
                   result, raised>>

\* _availability_cache = sg_path is not None
StoreCache(t) ==
    /\ pc[t] = "l56"
    /\ cache' = Some(sg_path[t] # PyNone)
    /\ writes' = writes + 1
    /\ pc' = [pc EXCEPT ![t] = "l63"]
    /\ UNCHANGED <<onPath, lookups, call, sg_path, avail, cmd, runs, proc,
                   result, raised>>

\* return _availability_cache (line 63): the global is read again
ReturnStored(t) ==
    /\ pc[t] = "l63"
    /\ avail' = [avail EXCEPT ![t] = cache]
    /\ pc' = [pc EXCEPT ![t] = AfterAvailable(t)]
    /\ UNCHANGED <<cache, onPath, lookups, writes, call, sg_path, cmd,
                   runs, proc, result, raised>>

\* a tool operation after its availability check: the early returns, or the
\* invocation is built
Validate(t) ==
    /\ pc[t] = "l113"
    /\ LET e == Early(avail[t][1], call[t]) IN
       IF e # <<>>
       THEN /\ result' = [result EXCEPT ![t] = e]
            /\ pc' = [pc EXCEPT ![t] = "done"]
            /\ cmd' = cmd
       ELSE /\ cmd' = [cmd EXCEPT ![t] = BuildCmd(call[t])]
            /\ pc' = [pc EXCEPT ![t] = "run"]
            /\ result' = result
    /\ UNCHANGED <<cache, onPath, lookups, writes, call, sg_path, avail,
                   runs, proc, raised>>

\* subprocess.run and what follows it, to the return
Run(t) ==
    /\ pc[t] = "run"
    /\ \E child \in Children(onPath) :
         LET o == Try(call[t], child) IN
         /\ proc' = [proc EXCEPT ![t] = child]
         /\ result' = [result EXCEPT ![t] = o.text]
         /\ raised' = [raised EXCEPT ![t] = o.raised]
    /\ runs' = [runs EXCEPT ![t] = runs[t] + 1]
    /\ pc' = [pc EXCEPT ![t] = "done"]
    /\ UNCHANGED <<cache, onPath, lookups, writes, call, sg_path, avail,
                   cmd>>

\* the call is over; its frame is dropped
Finish(t) ==
    /\ pc[t] = "done"
    /\ pc' = [pc EXCEPT ![t] = "idle"]
    /\ call' = [call EXCEPT ![t] = NoCall]
    /\ sg_path' = [sg_path EXCEPT ![t] = Unbound]
    /\ avail' = [avail EXCEPT ![t] = None]
    /\ cmd' = [cmd EXCEPT ![t] = <<>>]
    /\ runs' = [runs EXCEPT ![t] = 0]
    /\ proc' = [proc EXCEPT ![t] = NoProc]
    /\ result' = [result EXCEPT ![t] = <<>>]
    /\ raised' = [raised EXCEPT ![t] = ""]
    /\ UNCHANGED <<cache, onPath, lookups, writes>>

Step(t) ==
    \/ Start(t)
    \/ CheckCache(t)
    \/ ReturnCached(t)
    \/ Which(t)
    \/ StoreCache(t)
    \/ ReturnStored(t)
    \/ Validate(t)
    \/ Run(t)
    \/ Finish(t)

\* one caller, one call after the other
Next == PathChange \/ Step(1)

Spec == Init /\ [][Next]_vars

\* overlapping callers
NextOverlap == PathChange \/ \E t \in Callers : Step(t)

SpecOverlap == Init /\ [][NextOverlap]_vars

-----------------------------------------------------------------------------
(* Properties *)

ToolDone(t) == pc[t] = "done" /\ call[t].op \in ToolOps

\* the child of caller t's call ran to its end within the bound of the call
Completed(t) ==
    /\ runs[t] = 1
    /\ proc[t].fault = "none"
    /\ proc[t].duration <= Timeout(call[t].op)

\* C1: no call of search, rewrite or scan raises past its boundary: whatever
\* the availability probe found and whatever the child process did (absent
\* binary, invalid input, timeout, launch failure, any other exception), the
\* call ends by returning a non-empty text.
C1_NoOperationRaises ==
    \A t \in Callers :
        /\ raised[t] = ""
        /\ ToolDone(t) => result[t] # <<>>

\* a launch failure (OSError) and an unexpected exception (ValueError) are
\* only caught by the catch-all clause
C1_Witness ==
    \E t \in Callers :
        /\ ToolDone(t)
        /\ proc[t].fault = "OSError"
        /\ result[t] = ErrorText(ExcStr("OSError"))

\* C2 as stated: in every availability state, search and rewrite with an
\* empty pattern return "Error: Pattern cannot be empty", rewrite with a
\* pattern and an empty replacement returns "Error: Replacement cannot be
\* empty", and no process is launched.
C2_Original ==
    \A t \in Callers :
        (pc[t] = "done" /\ call[t].op \in {SearchOp, RewriteOp}) =>
            /\ call[t].pattern = "" =>
                 /\ result[t] = << "Error: Pattern cannot be empty" >>
                 /\ runs[t] = 0
            /\ (call[t].op = RewriteOp /\ call[t].pattern # ""
                    /\ call[t].replacement = "") =>
                 /\ result[t] = << "Error: Replacement cannot be empty" >>
                 /\ runs[t] = 0

\* C2 amended: an invalid call launches no process in any availability
\* state; it returns the validation message (pattern before replacement)
\* when the availability check answered present, and the not-installed text
\* when it answered absent.
C2_ValidationAfterAvailability ==
    \A t \in Callers :
        (pc[t] = "done" /\ call[t].op \in {SearchOp, RewriteOp}) =>
            /\ call[t].pattern = "" =>
                 /\ result[t] = IF avail[t] = Some(TRUE)
                                THEN << "Error: Pattern cannot be empty" >>
                                ELSE NotInstalledMessage
                 /\ runs[t] = 0
            /\ (call[t].op = RewriteOp /\ call[t].pattern # ""
                    /\ call[t].replacement = "") =>
                 /\ result[t] = IF avail[t] = Some(TRUE)
                                THEN << "Error: Replacement cannot be empty" >>
                                ELSE NotInstalledMessage
                 /\ runs[t] = 0

C2_Witness ==
    \E t \in Callers :
        /\ pc[t] = "done"
        /\ call[t].op = RewriteOp
        /\ call[t].pattern # ""
        /\ call[t].replacement = ""
        /\ avail[t] = Some(TRUE)
        /\ result[t] = << "Error: Replacement cannot be empty" >>

\* C3: when the availability check of a call of search, rewrite or scan
\* answers absent, the call returns the not-installed text (the same for
\* every operation and all arguments), builds no invocation and launches no
\* process.
C3_NotInstalledText ==
    \A t \in Callers :
        (ToolDone(t) /\ avail[t] = Some(FALSE)) =>
            /\ result[t] =
                 << "ast-grep is not installed or not available in PATH.\n\n",
                    "To install ast-grep, run:\n",
                    "  pip install ast-grep-cli\n\n",
                    "Or install via npm:\n",
                    "  npm install -g @ast-grep/cli\n\n",
                    "For more information, visit: https://ast-grep.github.io/" >>
            /\ cmd[t] = <<>>
            /\ runs[t] = 0

\* a scan answered from a cache that says absent, the binary being on PATH
\* by now
C3_Witness ==
    \E t \in Callers :
        /\ ToolDone(t)
        /\ call[t].op = ScanOp
        /\ cache = Some(FALSE)
        /\ avail[t] = Some(FALSE)
        /\ sg_path[t] = Unbound
        /\ onPath
        /\ result[t] = NotInstalledMessage

C5_WrittenAtMostOnce ==
    /\ writes <= 1
    /\ \A t, u \in Callers :
         (avail[t] # None /\ avail[u] # None) => avail[t] = avail[u]

\* C6 as stated: the invocation of rewrite holds the token --update-all if
\* and only if dry_run is false, dry_run is true when omitted, and the path
\* is the last token.
C6_UpdateAllIffNotDryRun ==
    \A t \in Callers :
        (call[t].op = RewriteOp /\ cmd[t] # <<>>) =>
            /\ (\E i \in 1..Len(cmd[t]) : cmd[t][i] = "--update-all")
                 <=> ~call[t].dry_run
            /\ ~call[t].dry_run_given => call[t].dry_run
            /\ cmd[t][Len(cmd[t])] = call[t].path

\* a rewrite whose child completed and was not reported as an error
RewriteSucceeded(t) ==
    /\ pc[t] = "done"
    /\ call[t].op = RewriteOp
    /\ Completed(t)
    /\ ~(proc[t].returncode # 0 /\ proc[t].stderr # <<>>)

DryRunPrefix(dry_run) == IF dry_run THEN << "[DRY RUN] " >> ELSE <<>>

\* C7 as stated: empty standard output maps to "No matches found for
\* rewrite" (dry run) or "No changes made" (real run), and non-empty standard
\* output is returned, prefixed with "[DRY RUN] " exactly in a dry run.
C7_Original ==
    \A t \in Callers :
        RewriteSucceeded(t) =>
            IF proc[t].stdout = <<>>
            THEN result[t] = IF call[t].dry_run
                             THEN << "No matches found for rewrite" >>
                             ELSE << "No changes made" >>
            ELSE result[t] =
                    DryRunPrefix(call[t].dry_run) \o Strip(proc[t].stdout)

\* C7 amended: the same with "output" read as the standard output stripped
\* of leading and trailing whitespace: whitespace-only output counts as
\* empty, and the stripped output is what is returned.
C7_RewriteOutput ==
    \A t \in Callers :
        RewriteSucceeded(t) =>
            LET output == Strip(proc[t].stdout) IN
            IF output = <<>>
            THEN result[t] = IF call[t].dry_run
                             THEN << "No matches found for rewrite" >>
                             ELSE << "No changes made" >>
            ELSE result[t] = DryRunPrefix(call[t].dry_run) \o output

\* a dry run with matches: the output, less its final newline, after the
\* marker
C7_Witness ==
    \E t \in Callers :
        /\ RewriteSucceeded(t)
        /\ call[t].dry_run
        /\ proc[t].stdout = << "match", "\n" >>
        /\ result[t] = << "[DRY RUN] ", "match" >>

IsErrorText(text) == text # <<>> /\ text[1] = "Error: "

ScanCompleted(t) ==
    pc[t] = "done" /\ call[t].op = ScanOp /\ Completed(t)

\* C8 as stated: whatever the exit code, non-empty standard output is
\* returned as the issues list, also with non-empty standard error;
\* "Error: {stderr}" is returned only for empty output and non-empty standard
\* error; empty output and empty standard error give "No issues found".
C8_Original ==
    \A t \in Callers :
        ScanCompleted(t) =>
            /\ proc[t].stdout # <<>> => result[t] = Strip(proc[t].stdout)
            /\ IsErrorText(result[t]) =>
                 (proc[t].stdout = <<>> /\ proc[t].stderr # <<>>)
            /\ (proc[t].stdout = <<>> /\ proc[t].stderr = <<>>) =>
                 result[t] = << "No issues found" >>

\* C8 amended: the same with "output" read as the standard output stripped
\* of leading and trailing whitespace; the exit code plays no part.
C8_ScanOutput ==
    \A t \in Callers :
        ScanCompleted(t) =>
            LET output == Strip(proc[t].stdout) IN
            /\ output # <<>> => result[t] = output
            /\ (output = <<>> /\ proc[t].stderr # <<>>) =>
                 result[t] = << "Error: " >> \o proc[t].stderr
            /\ (output = <<>> /\ proc[t].stderr = <<>>) =>
                 result[t] = << "No issues found" >>

\* issues found: exit code 1, diagnostics on standard error, and a list
C8_Witness ==
    \E t \in Callers :
        /\ ScanCompleted(t)
        /\ proc[t].returncode = 1
        /\ proc[t].stderr # <<>>
        /\ Strip(proc[t].stdout) # <<>>
        /\ result[t] = Strip(proc[t].stdout)

SearchCompleted(t) ==
    pc[t] = "done" /\ call[t].op = SearchOp /\ Completed(t)

\* C9 as stated: a non-zero exit with diagnostics returns
\* "Error: {stderr}" before anything else; otherwise empty output returns
\* "No matches found"; otherwise the raw standard output is returned
\* unchanged.
C9_Original ==
    \A t \in Callers :
        SearchCompleted(t) =>
            IF proc[t].returncode # 0 /\ proc[t].stderr # <<>>
            THEN result[t] = << "Error: " >> \o proc[t].stderr
            ELSE IF proc[t].stdout = <<>>
            THEN result[t] = << "No matches found" >>
            ELSE result[t] = proc[t].stdout

\* C9 amended: otherwise the standard output stripped of leading and
\* trailing whitespace is returned, and "No matches found" when nothing is
\* left of it.
C9_SearchOutput ==
    \A t \in Callers :
        SearchCompleted(t) =>
            LET output == Strip(proc[t].stdout) IN
            IF proc[t].returncode # 0 /\ proc[t].stderr # <<>>
            THEN result[t] = << "Error: " >> \o proc[t].stderr
            ELSE IF output = <<>>
            THEN result[t] = << "No matches found" >>
            ELSE result[t] = output

\* the diagnostic wins over matches on standard output
C9_Witness ==
    \E t \in Callers :
        /\ SearchCompleted(t)
        /\ proc[t].returncode # 0
        /\ proc[t].stderr # <<>>
        /\ Strip(proc[t].stdout) # <<>>
        /\ result[t] = << "Error: " >> \o proc[t].stderr

\* C10: a call launches at most one child process, and a child that
\* outlives the bound of its operation (60 for search, 120 for rewrite and
\* scan) makes the call return the timeout message of that operation.
C10_TimeoutMessage ==
    \A t \in Callers :
        /\ runs[t] <= 1
        /\ (pc[t] = "done" /\ runs[t] = 1 /\ proc[t].fault = "none") =>
             /\ (call[t].op = SearchOp /\ proc[t].duration > 60) =>
                  result[t] = << "Error: Search timed out after 60 seconds" >>
             /\ (call[t].op = RewriteOp /\ proc[t].duration > 120) =>
                  result[t] =
                     << "Error: Rewrite timed out after 120 seconds" >>
             /\ (call[t].op = ScanOp /\ proc[t].duration > 120) =>
                  result[t] = << "Error: Scan timed out after 120 seconds" >>
             /\ (proc[t].duration <= 60
                   \/ (call[t].op # SearchOp /\ proc[t].duration <= 120)) =>
                  result[t] \notin
                     { << "Error: Search timed out after 60 seconds" >>,
                       << "Error: Rewrite timed out after 120 seconds" >>,
                       << "Error: Scan timed out after 120 seconds" >> }

\* a search of 100 seconds times out; a rewrite would not
C10_Witness ==
    \E t \in Callers :
        /\ pc[t] = "done"
        /\ call[t].op = SearchOp
        /\ runs[t] = 1
        /\ proc[t].fault = "none"
        /\ proc[t].duration = 100
        /\ proc[t].stdout # <<>>
        /\ result[t] = << "Error: Search timed out after 60 seconds" >>

=============================================================================
